---- MODULE Spec2Model ----
(***************************************************************************)
(* Model of hooks/pre_commit.py: a git pre-commit hook that lists the      *)
(* staged (or, with --unstaged, the modified) *.ml files, runs a           *)
(* formatting tool on each of them and, in staged mode, re-adds each       *)
(* formatted file to the index.                                            *)
(*                                                                         *)
(* The repository is modelled by three maps from paths to contents: HEAD,  *)
(* the index and the working tree.  Every subprocess the script starts is  *)
(* one step whose return code is chosen nondeterministically.  Everything  *)
(* the script prints and every subprocess it runs is appended to `log`.    *)
(***************************************************************************)
EXTENDS Integers, Sequences, FiniteSets, TLC

\* ------------------------------------------------------------- bounds
\* Number of paths of the repository; the last one is not a *.ml file.
NFiles == 4
\* Largest return code a subprocess may exit with.
MaxRc == 2

Files == 1..NFiles
RCs == 0..MaxRc

\* The empty string: what follows the last "\n" of a git output.
NoFile == 0

\* Whether a path matches the pathspec "*." + extension (line 34).
MatchesExtension(f) == f < NFiles

\* ----------------------------------------------------------- contents
\* A path that does not exist on one side (HEAD, index or working tree).
Absent == [txt |-> "none", fmt |-> FALSE]
\* The committed content, the staged content, and a working-tree edit.
Committed == [txt |-> "h", fmt |-> TRUE]
StagedText == [txt |-> "s", fmt |-> FALSE]
UserEdit == [txt |-> "u", fmt |-> FALSE]

\* What the tool (ocamlformat --inplace) does to the content of a file.
Format(c) == IF c = Absent THEN c ELSE [c EXCEPT !.fmt = TRUE]

VARIABLES
    argv,           \* sys.argv
    head,           \* HEAD: path -> content
    index,          \* the index (staging area): path -> content
    wt,             \* the working tree: path -> content
    index0,         \* the index when the hook started
    wt0,            \* the working tree when the hook started
    pc,             \* position of the script
    relevant_ml_files, \* main's list, the result of _git_diff
    modified_lines, \* modified_files_result.stdout.split("\n")
    files,          \* _call_tool's `files` when its loop runs
    pos,            \* position of the for loop in `files`
    return_code,    \* _call_tool's return_code
    ocamlformat_rc, \* what _call_tool returned to main (NotReturned before)
    exitCode,       \* the exit status of the process (NotExited before)
    log             \* prints and subprocess runs, in order

vars == <<argv, head, index, wt, index0, wt0, pc, relevant_ml_files,
          modified_lines, files, pos, return_code, ocamlformat_rc,
          exitCode, log>>

NotReturned == -1
NotExited == -1

\* ------------------------------------------------------------ helpers
Range(s) == {s[k] : k \in 1..Len(s)}

Max(a, b) == IF a >= b THEN a ELSE b

RECURSIVE SortedSeq(_)
\* git prints the paths of a diff in path order.
SortedSeq(S) ==
    IF S = {} THEN <<>>
    ELSE LET m == CHOOSE x \in S : \A y \in S : x <= y
         IN <<m>> \o SortedSeq(S \ {m})

\* main, line 113-114
staged == "--unstaged" \notin Range(argv)
adjective == IF staged THEN "staged" ELSE "modified"

\* ---------------------------------------------------------------- git
\* git diff --cached --name-only --diff-filter=ACMR "*.ml": index against
\* HEAD, deletions left out.
StagedPaths ==
    {f \in Files : MatchesExtension(f) /\ index[f] # Absent /\ index[f] # head[f]}

\* git diff --name-only --diff-filter=ACMR "*.ml": working tree against
\* index, deletions left out; untracked paths are never reported.
ModifiedPaths ==
    {f \in Files : MatchesExtension(f) /\ index[f] # Absent
                   /\ wt[f] # Absent /\ wt[f] # index[f]}

\* git diff --name-only: working tree against index, every tracked path
\* that differs, deletions included, no pathspec.
UnstagedPaths == {f \in Files : index[f] # Absent /\ wt[f] # index[f]}

\* stdout.split("\n"): one element per line, then the empty string.
SplitLines(paths) == Append(SortedSeq(paths), NoFile)

\* The comprehension without its `if x`.
KeepsEmptyLines(lines) == lines
\* The comprehension of line 39 filters the empty lines.
NonEmptyLines(lines) == SelectSeq(lines, LAMBDA x : x # NoFile)

\* ----------------------------------------------------------- the log
PrintEv(what, f) == [ev |-> "print", cmd |-> what, file |-> f, rc |-> 0]
RunEv(what, f, rc) == [ev |-> "run", cmd |-> what, file |-> f, rc |-> rc]

\* subprocess.run without a print before it (lines 35-37 and 60-62).
RunQuiet(l, what, f, rc) == Append(l, RunEv(what, f, rc))

\* The same run with the print forgotten.
RunUnannounced(l, what, f, rc) == Append(l, RunEv(what, f, rc))
\* print(" ".join(cmd)) then subprocess.run(cmd) (lines 80-81 and 92-93).
EchoThenRun(l, what, f, rc) == l \o <<PrintEv(what, f), RunEv(what, f, rc)>>

\* check=False: the return code is ignored.
RaisesNever(rc) == FALSE
\* check=True: a non-zero return code raises CalledProcessError.
Raises(rc) == rc # 0

\* An exit status taken from the failed subprocess.
ExitPropagates(rc) == rc
\* Nothing catches CalledProcessError: the interpreter prints the traceback
\* and exits with status 1; sys.exit(main()) is never reached.
ExitOnRaise(rc) == 1

\* The list left as it is, and the test of the comprehension inverted.
TrimmedUnfiltered(fs, lines) == fs
TrimmedInverted(fs, lines) == SelectSeq(fs, LAMBDA x : x \in Range(lines))
\* trimmed_files, lines 63-65
TrimmedFiles(fs, lines) == SelectSeq(fs, LAMBDA x : x \notin Range(lines))

\* excluded, line 66
Excluded(fs, trimmed) == SelectSeq(fs, LAMBDA x : x \notin Range(trimmed))

\* The re-add made unconditional, and the re-add dropped.
ReAddsAlways(s) == TRUE
ReAddsNever(s) == FALSE
\* `if staged_or_modified:` of line 82
ReAdds(s) == s

\* _call_tool called whatever the list.
HasRelevantAlways(fs) == TRUE
\* `if relevant_ml_files:` of line 119
HasRelevant(fs) == fs # <<>>

\* The warning of lines 67-75: a header, then one line per excluded file.
Warning(excl) ==
    IF excl = <<>> THEN <<>>
    ELSE <<PrintEv("warning", NoFile)>>
         \o [k \in 1..Len(excl) |-> PrintEv("excluded", excl[k])]

\* An uncaught exception ends the process.
Abort(rc) ==
    /\ pc' = "exited"
    /\ exitCode' = ExitOnRaise(rc)

\* --------------------------------------------------------------- Init
\* The states a path can be in when the hook starts: committed, then
\* possibly changed in the index and possibly edited or deleted in the
\* working tree; committed and deleted from both; or new, added to the
\* index and possibly edited further.
RepoOK(h, i, w) ==
    \/ /\ h = Committed
       /\ i \in {h, StagedText}
       /\ w \in {i, UserEdit, Absent}
    \/ /\ h = Committed
       /\ i = Absent
       /\ w = Absent
    \/ /\ h = Absent
       /\ i = StagedText
       /\ w \in {i, UserEdit}

Init ==
    /\ argv \in {<<"pre-commit">>, <<"pre-commit", "--unstaged">>}
    /\ head \in [Files -> {Absent, Committed}]
    /\ index \in [Files -> {Absent, Committed, StagedText}]
    /\ wt \in [Files -> {Absent, Committed, StagedText, UserEdit}]
    /\ \A f \in Files : RepoOK(head[f], index[f], wt[f])
    /\ index0 = index
    /\ wt0 = wt
    /\ pc = "start"
    /\ relevant_ml_files = <<>>
    /\ modified_lines = <<>>
    /\ files = <<>>
    /\ pos = 1
    /\ return_code = 0
    /\ ocamlformat_rc = NotReturned
    /\ exitCode = NotExited
    /\ log = <<>>

\* ------------------------------------------------------------ actions
\* _git_diff(staged, "ml"), called at line 118.
GitDiff ==
    /\ pc = "start"
    /\ \E rc \in RCs :
        /\ log' = RunQuiet(log, IF staged THEN "diff-cached" ELSE "diff", NoFile, rc)
        /\ IF Raises(rc)
           THEN /\ Abort(rc)
                /\ UNCHANGED relevant_ml_files
           ELSE /\ relevant_ml_files' =
                      NonEmptyLines(SplitLines(IF staged THEN StagedPaths
                                                         ELSE ModifiedPaths))
                /\ pc' = "diffed"
                /\ UNCHANGED exitCode
    /\ UNCHANGED <<argv, head, index, wt, index0, wt0, modified_lines, files,
                   pos, return_code, ocamlformat_rc>>

\* The else branch of main, lines 125-128.
NothingToFormat ==
    /\ pc = "diffed"
    /\ ~HasRelevant(relevant_ml_files)
    /\ log' = Append(log, PrintEv("nothing-" \o adjective, NoFile))
    /\ pc' = "exited"
    /\ exitCode' = 0
    /\ UNCHANGED <<argv, head, index, wt, index0, wt0, relevant_ml_files,
                   modified_lines, files, pos, return_code, ocamlformat_rc>>

\* _call_tool in staged mode, lines 54-77: the unstaged-modification query,
\* the trimming of the list and the warning.
StagedFilter ==
    /\ pc = "diffed"
    /\ HasRelevant(relevant_ml_files)
    /\ staged
    /\ \E rc \in RCs :
        /\ IF Raises(rc)
           THEN /\ log' = RunQuiet(log, "diff-all", NoFile, rc)
                /\ Abort(rc)
                /\ UNCHANGED <<modified_lines, files>>
           ELSE LET lines == SplitLines(UnstagedPaths)
                    trimmed_files == TrimmedFiles(relevant_ml_files, lines)
                    excluded == Excluded(relevant_ml_files, trimmed_files)
                IN /\ modified_lines' = lines
                   /\ files' = trimmed_files
                   /\ log' = RunQuiet(log, "diff-all", NoFile, rc) \o Warning(excluded)
                   /\ pc' = "loop"
                   /\ UNCHANGED exitCode
    /\ pos' = 1
    /\ return_code' = 0
    /\ UNCHANGED <<argv, head, index, wt, index0, wt0, relevant_ml_files,
                   ocamlformat_rc>>

\* _call_tool in unstaged mode: line 54 is false, the list is used as is.
UnstagedNoFilter ==
    /\ pc = "diffed"
    /\ HasRelevant(relevant_ml_files)
    /\ ~staged
    /\ files' = relevant_ml_files
    /\ pos' = 1
    /\ return_code' = 0
    /\ pc' = "loop"
    /\ UNCHANGED <<argv, head, index, wt, index0, wt0, relevant_ml_files,
                   modified_lines, ocamlformat_rc, exitCode, log>>

\* Lines 79-82: the tool runs on the current file of the loop.  A tool that
\* fails may or may not have rewritten the file.
RunTool ==
    /\ pc = "loop"
    /\ pos <= Len(files)
    /\ LET file_ == files[pos] IN
       \E rc \in RCs :
        /\ log' = EchoThenRun(log, "tool", file_, rc)
        /\ IF Raises(rc)
           THEN /\ Abort(rc)
                /\ \E w \in {wt[file_], Format(wt[file_])} :
                       wt' = [wt EXCEPT ![file_] = w]
                /\ UNCHANGED pos
           ELSE /\ \E w \in (IF rc = 0 THEN {Format(wt[file_])}
                                       ELSE {wt[file_], Format(wt[file_])}) :
                       wt' = [wt EXCEPT ![file_] = w]
                /\ IF ReAdds(staged)
                   THEN pc' = "add" /\ UNCHANGED pos
                   ELSE pc' = "loop" /\ pos' = pos + 1
                /\ UNCHANGED exitCode
    /\ UNCHANGED <<argv, head, index, index0, wt0, relevant_ml_files,
                   modified_lines, files, return_code, ocamlformat_rc>>

\* Lines 91-93: git add of the file the tool just ran on.
GitAdd ==
    /\ pc = "add"
    /\ LET file_ == files[pos] IN
       \E rc \in RCs :
        /\ log' = EchoThenRun(log, "add", file_, rc)
        /\ IF Raises(rc)
           THEN /\ Abort(rc)
                /\ UNCHANGED <<index, pos>>
           ELSE /\ index' = IF rc = 0 THEN [index EXCEPT ![file_] = wt[file_]]
                                      ELSE index
                /\ pos' = pos + 1
                /\ pc' = "loop"
                /\ UNCHANGED exitCode
    /\ UNCHANGED <<argv, head, wt, index0, wt0, relevant_ml_files,
                   modified_lines, files, return_code, ocamlformat_rc>>

\* Line 94, then lines 124 and 128 of main and sys.exit of line 132.
Return ==
    /\ pc = "loop"
    /\ pos > Len(files)
    /\ ocamlformat_rc' = return_code
    /\ exitCode' = Max(0, return_code)
    /\ pc' = "exited"
    /\ UNCHANGED <<argv, head, index, wt, index0, wt0, relevant_ml_files,
                   modified_lines, files, pos, return_code, log>>

Next ==
    \/ GitDiff
    \/ NothingToFormat
    \/ StagedFilter
    \/ UnstagedNoFilter
    \/ RunTool
    \/ GitAdd
    \/ Return

Spec == Init /\ [][Next]_vars

\* ------------------------------------------------- reading the log
IsRun(e, kinds) == e.ev = "run" /\ e.cmd \in kinds
FilesOf(s) == [k \in 1..Len(s) |-> s[k].file]

ToolRuns == SelectSeq(log, LAMBDA e : IsRun(e, {"tool"}))
OkToolRuns == SelectSeq(log, LAMBDA e : IsRun(e, {"tool"}) /\ e.rc = 0)
AddRuns == SelectSeq(log, LAMBDA e : IsRun(e, {"add"}))
AllRuns == SelectSeq(log, LAMBDA e : e.ev = "run")
FailedRuns == SelectSeq(log, LAMBDA e : e.ev = "run" /\ e.rc # 0)

\* The paths with unstaged modifications, and the modified *.ml paths, in
\* the repository as the hook found it.
UnstagedPaths0 == {f \in Files : index0[f] # Absent /\ wt0[f] # index0[f]}
ModifiedPaths0 ==
    {f \in Files : MatchesExtension(f) /\ index0[f] # Absent
                   /\ wt0[f] # Absent /\ wt0[f] # index0[f]}

IsPrefix(s, t) == Len(s) <= Len(t) /\ \A k \in 1..Len(s) : s[k] = t[k]

RECURSIVE MaxOf(_)
MaxOf(S) == IF S = {} THEN 0
            ELSE LET x == CHOOSE y \in S : TRUE IN Max(x, MaxOf(S \ {x}))

\* ------------------------------------------------------------- claims

\* C1: in staged mode a file reported by the working-tree-vs-index query
\* (a file with unstaged modifications) is never passed to the tool and is
\* never re-added.
C1_UnstagedNeverFormatted ==
    staged =>
        \A k \in 1..Len(log) :
            IsRun(log[k], {"tool", "add"}) =>
                /\ log[k].file \notin Range(modified_lines)
                /\ log[k].file \notin UnstagedPaths0

C1_Witness ==
    /\ staged
    /\ pc = "exited"
    /\ Range(relevant_ml_files) \cap Range(modified_lines) # {}
    /\ Len(ToolRuns) >= 1
    /\ Len(AddRuns) >= 1

\* C2: in staged mode every successful tool run on f is followed by a git
\* add of f before the tool runs on a later file, and git add is only run
\* for the file whose tool run just succeeded: the re-added files are the
\* successfully formatted files, in the same order.
C2_ReAddFollowsFormat ==
    staged =>
        /\ IF pc = "add"
           THEN FilesOf(OkToolRuns) = Append(FilesOf(AddRuns), files[pos])
           ELSE FilesOf(AddRuns) = FilesOf(OkToolRuns)
        /\ \A k \in 1..Len(log) :
            /\ IsRun(log[k], {"add"}) =>
                  k > 2 /\ log[k - 2] = RunEv("tool", log[k].file, 0)
            /\ (IsRun(log[k], {"tool"}) /\ log[k].rc = 0 /\ k + 2 <= Len(log)) =>
                  IsRun(log[k + 2], {"add"}) /\ log[k + 2].file = log[k].file

C2_Witness ==
    /\ staged
    /\ pc = "exited"
    /\ exitCode = 0
    /\ Len(AddRuns) >= 2

\* C3: with --unstaged no git add is ever run and the index is unchanged,
\* whether the tool succeeds or fails; the unstaged-modification query is
\* not made and nothing is excluded, so the tool is run on the modified
\* matching files in order, on every one of them when the run completes.
C3_UnstagedNoReAdd ==
    ~staged =>
        /\ AddRuns = <<>>
        /\ index = index0
        /\ \A k \in 1..Len(log) : log[k].cmd \notin {"diff-all", "warning", "excluded"}
        /\ pc \in {"loop", "add"} => files = SortedSeq(ModifiedPaths0)
        /\ IsPrefix(FilesOf(ToolRuns), SortedSeq(ModifiedPaths0))
        /\ (pc = "exited" /\ exitCode = 0) =>
              FilesOf(ToolRuns) = SortedSeq(ModifiedPaths0)

C3_Witness ==
    /\ ~staged
    /\ pc = "exited"
    /\ Len(ToolRuns) >= 2
    /\ ToolRuns[Len(ToolRuns)].rc # 0

\* C4: a failing external command is the last thing the run does: nothing
\* is formatted or re-added after it, a file the tool failed on is not
\* re-added, and the exit code is not zero.
C4_FailFast ==
    \A k \in 1..Len(log) :
        (log[k].ev = "run" /\ log[k].rc # 0) =>
            /\ k = Len(log)
            /\ pc = "exited"
            /\ exitCode # 0
            /\ exitCode # NotExited
            /\ ocamlformat_rc = NotReturned
            /\ log[k].cmd = "tool" =>
                  /\ log[k].file \notin Range(FilesOf(AddRuns))
                  /\ index[log[k].file] = index0[log[k].file]

C4_Witness ==
    /\ pc = "exited"
    /\ exitCode # 0
    /\ pos > 1
    /\ Len(AddRuns) >= 1
    /\ log[Len(log)].cmd = "tool"
    /\ log[Len(log)].rc # 0
    /\ pos < Len(files)

\* C5: in either mode, when the diff query reports no matching file the run
\* prints the nothing-to-format message, runs neither the tool nor git add,
\* and exits with code 0.
C5_NothingToFormat ==
    (pc # "start" /\ relevant_ml_files = <<>> /\ FailedRuns = <<>>) =>
        /\ pc \in {"diffed", "exited"}
        /\ ToolRuns = <<>>
        /\ AddRuns = <<>>
        /\ Len(AllRuns) = 1
        /\ pc = "exited" =>
              /\ exitCode = 0
              /\ log[Len(log)] = PrintEv("nothing-" \o adjective, NoFile)

C5_Witness ==
    /\ pc = "exited"
    /\ relevant_ml_files = <<>>
    /\ FailedRuns = <<>>
    /\ Len(log) = 2
    /\ \E f \in Files : index0[f] # head[f]

\* C6 as stated: the exit code is 0 when every command succeeds and is
\* otherwise the exit code of the first failing subprocess.
C6_ExitCodePropagated ==
    pc = "exited" =>
        exitCode = (IF FailedRuns = <<>> THEN 0 ELSE FailedRuns[1].rc)

\* C6 amended: the exit code is 0 when every command succeeds and is 1,
\* the interpreter's status for the uncaught CalledProcessError, when a
\* command fails, whatever that command's own exit code.
C6_ExitCodeZeroOrOne ==
    pc = "exited" =>
        exitCode = (IF FailedRuns = <<>> THEN 0 ELSE 1)

C6_Witness ==
    /\ pc = "exited"
    /\ exitCode = 1
    /\ FailedRuns # <<>>
    /\ FailedRuns[1].rc > 1

\* C7: what _call_tool returns, and so the exit code of a run that
\* completes, is the maximum of the return codes of the tool runs made.
C7_ReturnsMaxOfToolCodes ==
    ocamlformat_rc # NotReturned =>
        /\ ocamlformat_rc = MaxOf({ToolRuns[k].rc : k \in 1..Len(ToolRuns)})
        /\ pc = "exited"
        /\ exitCode = ocamlformat_rc

C7_Witness ==
    /\ ocamlformat_rc # NotReturned
    /\ Len(ToolRuns) >= 2

\* C8 as stated: every external command the run executes is printed
\* before it is run.
C8_EveryCommandEchoed ==
    \A k \in 1..Len(log) :
        log[k].ev = "run" =>
            \E j \in 1..(k - 1) : log[j] = PrintEv(log[k].cmd, log[k].file)

\* C8 amended: every tool run and every git add is printed right before
\* it is run; the two git diff queries are run without being printed.
C8_ToolAndAddEchoed ==
    \A k \in 1..Len(log) :
        /\ IsRun(log[k], {"tool", "add"}) =>
              k > 1 /\ log[k - 1] = PrintEv(log[k].cmd, log[k].file)
        /\ IsRun(log[k], {"diff", "diff-cached", "diff-all"}) =>
              \A j \in 1..Len(log) : log[j] # PrintEv(log[k].cmd, log[k].file)

C8_Witness ==
    /\ pc = "exited"
    /\ Len(ToolRuns) >= 2
    /\ Len(AddRuns) >= 2
    /\ \E k \in 1..Len(log) : IsRun(log[k], {"diff-all"})

\* C9: in staged mode a re-add only stages formatting changes: when the
\* tool is run on a file its working-tree content equals its index content,
\* after the re-add the index holds the tool's output on the content that
\* was staged, and no unstaged edit of any file enters the index.
C9_ReAddStagesOnlyFormatting ==
    staged =>
        /\ (pc = "loop" /\ pos <= Len(files)) =>
              /\ wt[files[pos]] = index[files[pos]]
              /\ index[files[pos]] = index0[files[pos]]
        /\ pc = "add" => wt[files[pos]] = Format(index0[files[pos]])
        /\ \A k \in 1..Len(log) :
              (IsRun(log[k], {"add"}) /\ log[k].rc = 0) =>
                  /\ wt0[log[k].file] = index0[log[k].file]
                  /\ index[log[k].file] = Format(index0[log[k].file])
        /\ \A f \in Files :
              /\ index[f] \in {index0[f], Format(index0[f])}
              /\ index[f] # index0[f] =>
                    \E k \in 1..Len(log) : log[k] = RunEv("add", f, 0)

C9_Witness ==
    /\ staged
    /\ pc = "exited"
    /\ \E f \in Files : index[f] # index0[f] /\ index[f] = Format(index0[f])
    /\ \E g \in Range(relevant_ml_files) : wt0[g] = UserEdit /\ index[g] = index0[g]

\* C10: in a run where no command fails, the tool is run on exactly the
\* files the diff reported minus the excluded ones, once each, in the order
\* of the diff output, and on no other file.
C10_FormatsReportedMinusExcluded ==
    /\ IsPrefix(FilesOf(ToolRuns),
                SelectSeq(relevant_ml_files,
                          LAMBDA x : ~(staged /\ x \in UnstagedPaths0)))
    /\ (pc = "exited" /\ FailedRuns = <<>>) =>
          FilesOf(ToolRuns) =
              SelectSeq(relevant_ml_files,
                        LAMBDA x : ~(staged /\ x \in UnstagedPaths0))
    /\ pc # "start" /\ Len(AllRuns) >= 1 /\ AllRuns[1].rc = 0 =>
          relevant_ml_files =
              SortedSeq(IF staged
                        THEN {f \in Files : MatchesExtension(f)
                                  /\ index0[f] # Absent /\ index0[f] # head[f]}
                        ELSE ModifiedPaths0)

C10_Witness ==
    /\ staged
    /\ pc = "exited"
    /\ FailedRuns = <<>>
    /\ Len(ToolRuns) >= 1
    /\ Len(ToolRuns) < Len(relevant_ml_files)
    /\ \E k \in 1..Len(log) : log[k].cmd = "excluded"

====
